---- MODULE Spec2Model ----
(***************************************************************************)
(* OTP phone login of bolbol (users app): LoginAPIView, VerifyOTPCodeAPIView*)
(* and the helpers of users/utils.py, run by concurrent request handlers   *)
(* over one shared cache and one users table; registration; and, of the    *)
(* products app, ProductDetailAPIView with Product.increment_view and      *)
(* CityAPIView.                                                            *)
(*                                                                         *)
(* Python strings are sequences of one-character strings, so that          *)
(* format_phone_number is computed character by character.  None is the    *)
(* one-element sequence <<"None">>, which no character sequence equals.    *)
(***************************************************************************)
EXTENDS Integers, Sequences, FiniteSets, TLC

VARIABLES
    users,      \* the User table: a set of rows
    cache,      \* django cache: key -> entry (hash, absolute expiry)
    now,        \* wall clock, seconds
    req,        \* one record per request handler: position and locals
    resp,       \* the response a handler step has just produced, until it is sent
    issued,     \* history: per phone number, the last code cache_otp wrote
    probe,      \* one phone string taken through users/utils.py and registration
    products,   \* the Product table: a set of rows
    City,       \* the City table: a set of pks
    cities,     \* django cache, key "cities"
    job,        \* one record per products request handler: position and locals
    reply,      \* the response a products handler step has just produced
    hist        \* history: increment_view saves done, the first non-empty list cached

\* users app
auth == <<users, cache, now, req, resp, issued, probe>>

\* products app
shop == <<products, City, cities, job, reply, hist>>

vars == <<users, cache, now, req, resp, issued, probe, shop>>

----------------------------------------------------------------------------
(* Bounds of the model *)

MaxTime == 300
TickStep == 300

\* views a product may collect in the model
MaxViews == 3

Workers == {"w1", "w2"}

----------------------------------------------------------------------------
(* Values *)

None == <<"None">>

Digits == {"0", "1", "2", "3", "4", "5", "6", "7", "8", "9"}

CC == <<"+", "9", "9", "4">>

\* local numbers with operator prefix 50: Local1 is the number of the user who
\* logs in, Local2 of a user nobody logs in as, Local3 of nobody
Local1 == <<"5", "0", "1", "2", "3", "4", "5", "6", "7">>
Local2 == <<"5", "0", "7", "6", "5", "4", "3", "2", "1">>
Local3 == <<"5", "0", "5", "5", "5", "0", "0", "0", "0">>

Number1 == CC \o Local1
Number2 == CC \o Local2
Number3 == CC \o Local3

Numbers == {Number1, Number3}

\* the textual forms a client may submit for a local number
FormZero(n) == <<"0">> \o n
Form994(n) == <<"9", "9", "4">> \o n
FormPretty(n) ==
    <<"+", "9", "9", "4", " ">> \o SubSeq(n, 1, 2) \o <<" ">> \o SubSeq(n, 3, 5)
        \o <<"-">> \o SubSeq(n, 6, 7) \o <<"-">> \o SubSeq(n, 8, 9)

Forms(n) == {FormZero(n), Form994(n), FormPretty(n)}

BadOperator == <<"0", "0", "0", "1", "2", "3", "4", "5", "6", "7">>
BadLength == <<"1", "2", "3", "4", "5">>
Empty == <<>>

\* what clients submit as "phone".  The handlers use the text only through
\* format_phone_number, and every form of a number has the same normal form
\* (C7), so login-otp is asked for in the leading-0 form and verify-otp in
\* every form.
LoginPhones == {FormZero(Local1), FormZero(Local3), BadOperator, BadLength, Empty, None}

VerifyPhones == Forms(Local1) \cup {FormZero(Local3), BadOperator, Empty, None}

RawPhones == LoginPhones \cup VerifyPhones

\* the number a textual form denotes, read off the form's construction
Denoted(raw) ==
    IF raw \in Forms(Local1) THEN Number1
    ELSE IF raw \in Forms(Local3) THEN Number3
    ELSE None

CodeA == <<"1", "2", "3", "4", "5", "6">>
CodeB == <<"6", "5", "4", "3", "2", "1">>

CodePool == {CodeA, CodeB}

RawOtps == CodePool \cup {Empty, None}

----------------------------------------------------------------------------
(* users/constants.py *)

OTP_LENGTH == 6

PHONE_NUMBER_PREFIXES == {<<"5", "0">>}

\* OTP_TIMEOUT: the seconds a deployment may configure as the lifetime of a code
OTP_TIMEOUT_values == {300, 600}

----------------------------------------------------------------------------
(* users/utils.py *)

isdigit(c) == c \in Digits

RECURSIVE FilterDigits(_)
FilterDigits(s) ==
    IF s = <<>> THEN <<>>
    ELSE (IF isdigit(Head(s)) THEN <<Head(s)>> ELSE <<>>) \o FilterDigits(Tail(s))

startswith(s, p) == Len(s) >= Len(p) /\ SubSeq(s, 1, Len(p)) = p

\* format_phone_number without the rule for a leading 0
format_phone_number_nozero(phone) ==
    LET number == FilterDigits(phone)
        n2 == IF startswith(number, <<"9", "9", "4">>) THEN <<"+">> \o number ELSE number
        n3 == IF Len(n2) = 9 THEN CC \o n2 ELSE n2
    IN  n3

\* format_phone_number without the rule for a 9-character number
format_phone_number_nolocal(phone) ==
    LET number == FilterDigits(phone)
        n1 == IF startswith(number, <<"0">>) THEN CC \o Tail(number) ELSE number
        n2 == IF startswith(n1, <<"9", "9", "4">>) THEN <<"+">> \o n1 ELSE n1
    IN  n2

\* format_phone_number without the rule that puts "+" before a leading 994
format_phone_number_noplus(phone) ==
    LET number == FilterDigits(phone)
        n1 == IF startswith(number, <<"0">>) THEN CC \o Tail(number) ELSE number
        n3 == IF Len(n1) = 9 THEN CC \o n1 ELSE n1
    IN  n3

format_phone_number(phone) ==
    LET number == FilterDigits(phone)
        n1 == IF startswith(number, <<"0">>) THEN CC \o Tail(number) ELSE number
        n2 == IF startswith(n1, <<"9", "9", "4">>) THEN <<"+">> \o n1 ELSE n1
        n3 == IF Len(n2) = 9 THEN CC \o n2 ELSE n2
    IN  n3

\* verify_phone_number that checks the length only
verify_phone_number_anyoperator(phone) == Len(format_phone_number(phone)) # 13

\* TRUE when verify_phone_number raises ValueError
verify_phone_number_raises(phone) ==
    LET p == format_phone_number(phone)
    IN  \/ Len(p) # 13
        \/ SubSeq(p, 5, 6) \notin PHONE_NUMBER_PREFIXES

\* generate_otp that joins one character fewer
generate_otp_short(phone, choice) == [i \in 1..(OTP_LENGTH - 1) |-> choice[i]]

\* "".join(secrets.choice(digits) for _ in range(OTP_LENGTH)), choice[i] being
\* what the i-th secrets.choice(digits) returned
generate_otp_join(phone, choice) == [i \in 1..OTP_LENGTH |-> choice[i]]

\* the values generate_otp can return, within the pool of the model
generate_otp ==
    {c \in CodePool : Len(c) = OTP_LENGTH /\ \A i \in 1..Len(c) : c[i] \in Digits}

sha256hex(s) == <<"sha256">> \o s

OTP_TTL == 300

NoEntry == [hash |-> None, expires |-> 0]

CacheKeys == {format_phone_number(r) : r \in RawPhones \ {None}} \cup Numbers

cache_get(c, t, key) ==
    IF c[key].hash # None /\ t < c[key].expires THEN c[key].hash ELSE None

\* cache.add in place of cache.set: a live entry is kept
cache_set_keeps(c, t, key, value, timeout) ==
    IF c[key].hash # None /\ t < c[key].expires THEN c
    ELSE [c EXCEPT ![key] = [hash |-> value, expires |-> t + timeout]]

cache_set(c, t, key, value, timeout) ==
    [c EXCEPT ![key] = [hash |-> value, expires |-> t + timeout]]

\* a delete that removes nothing
cache_delete_nothing(c, key) == c

cache_delete(c, key) == [c EXCEPT ![key] = NoEntry]

\* cache_otp that stores the code as it is
cache_otp_plain(c, t, phone, otp) == cache_set(c, t, phone, otp, OTP_TTL)

cache_otp(c, t, phone, otp) == cache_set(c, t, phone, sha256hex(otp), OTP_TTL)

compare_digest(a, b) == a = b

\* verify_otp that accepts any code while a hash is stored
verify_otp_uncompared(c, t, phone, otp_entered) == cache_get(c, t, phone) # None

\* verify_otp that accepts whatever is submitted
verify_otp_always(c, t, phone, otp_entered) == TRUE

\* verify_otp that reads the stored hash whatever its expiry
verify_otp_stale(c, t, phone, otp_entered) ==
    IF c[phone].hash = None THEN FALSE
    ELSE compare_digest(sha256hex(otp_entered), c[phone].hash)

verify_otp(c, t, phone, otp_entered) ==
    LET otp_hash == cache_get(c, t, phone)
    IN  IF otp_hash = None THEN FALSE
        ELSE compare_digest(sha256hex(otp_entered), otp_hash)

----------------------------------------------------------------------------
(* users/models.py: the User table *)

NoUser == [id |-> 0, phone |-> None, phone_verified |-> FALSE, is_active |-> TRUE]

InitialUsers ==
    {[id |-> 1, phone |-> Number2, phone_verified |-> FALSE, is_active |-> TRUE],
     [id |-> 2, phone |-> Number1, phone_verified |-> FALSE, is_active |-> TRUE]}

\* an existence check that ignores the phone
filter_exists_any(us, phone) == us # {}

\* User.objects.filter(phone=phone).exists()
filter_exists(us, phone) == \E u \in us : u.phone = phone

\* a lookup that ignores the phone: the row of least pk
filter_first_any(us, phone) ==
    IF us = {} THEN NoUser
    ELSE CHOOSE u \in us : \A v \in us : u.id <= v.id

\* User.objects.filter(phone=phone).first(): the match of least pk, or None
filter_first(us, phone) ==
    LET m == {u \in us : u.phone = phone}
    IN  IF m = {} THEN NoUser
        ELSE CHOOSE u \in m : \A v \in m : u.id <= v.id

\* Model.save(): writes every field of the instance under its pk
save(us, user) == {u \in us : u.id # user.id} \cup {user}

----------------------------------------------------------------------------
(* History kept for the properties; no handler reads it *)

\* what was the case when a request made its check, as the properties need it
G0 == [noPhone |-> FALSE, noOtp |-> FALSE, invalid |-> FALSE, existed |-> FALSE,
       live |-> FALSE, expired |-> FALSE, matched |-> FALSE, owed |-> FALSE,
       sameCode |-> FALSE, xform |-> FALSE, after |-> FALSE, priorFail |-> FALSE,
       clean |-> FALSE, uidOk |-> FALSE, userThere |-> FALSE, blank |-> FALSE,
       emptyOtp |-> FALSE, wasVerified |-> FALSE, wrote |-> FALSE]

NoIssue == [code |-> None, raw |-> None, expires |-> 0, deleted |-> FALSE,
            accepts |-> 0, failed |-> FALSE]

\* the code last written for number n is still there to be used
Outstanding(n) ==
    /\ issued[n].code # None
    /\ ~issued[n].deleted
    /\ now < issued[n].expires

\* a canonical phone number: +994, an operator prefix of the list, 7 digits
Canonical(p) ==
    /\ Len(p) = 13
    /\ SubSeq(p, 1, 4) = CC
    /\ SubSeq(p, 5, 6) \in PHONE_NUMBER_PREFIXES
    /\ \A i \in 5..13 : p[i] \in Digits

\* what a login-otp request finds when it arrives
AtLogin(raw) ==
    IF raw = None THEN [G0 EXCEPT !.noPhone = TRUE, !.invalid = TRUE]
    ELSE LET key == format_phone_number(raw)
         IN  [G0 EXCEPT !.invalid = ~Canonical(key),
                        !.blank = \A i \in 1..Len(raw) : raw[i] \notin Digits,
                        !.existed = \E u \in users : u.phone = key]

\* what a verify-otp request finds when it runs its check
AtCheck(raw, otp) ==
    IF raw = None THEN [G0 EXCEPT !.noPhone = TRUE, !.invalid = TRUE, !.noOtp = (otp = None)]
    ELSE LET key == format_phone_number(raw)
             n == Denoted(raw)
             live == cache[key].hash # None /\ now < cache[key].expires
         IN  [G0 EXCEPT
                 !.noOtp = (otp = None),
                 !.emptyOtp = (otp = <<>>),
                 !.wasVerified = \E u \in users : u.phone = n /\ u.phone_verified,
                 !.invalid = ~Canonical(key),
                 !.blank = \A i \in 1..Len(raw) : raw[i] \notin Digits,
                 !.live = live,
                 !.expired = cache[key].hash # None /\ now >= cache[key].expires,
                 !.matched = live /\ cache[key].hash = sha256hex(otp),
                 !.owed = n # None /\ Outstanding(n) /\ otp = issued[n].code,
                 !.sameCode = n # None /\ otp = issued[n].code,
                 !.xform = n # None /\ issued[n].raw # None /\ issued[n].raw # raw,
                 !.after = n # None /\ issued[n].accepts >= 1,
                 !.priorFail = n # None /\ issued[n].failed,
                 !.clean = TRUE]

IssuedAfterWrite(raw, otp) ==
    LET n == Denoted(raw)
    IN  IF n = None THEN issued
        ELSE [issued EXCEPT ![n] = [code |-> otp, raw |-> raw, expires |-> now + OTP_TTL,
                                    deleted |-> FALSE, accepts |-> 0, failed |-> FALSE]]

IssuedAfterDelete(n) ==
    IF n = None THEN issued ELSE [issued EXCEPT ![n].deleted = TRUE]

IssuedAfterFail(raw, otp) ==
    LET n == Denoted(raw)
    IN  IF n # None /\ Outstanding(n) /\ otp # issued[n].code
        THEN [issued EXCEPT ![n].failed = TRUE] ELSE issued

IssuedAfterAccept(n, clean) ==
    IF n # None /\ clean THEN [issued EXCEPT ![n].accepts = @ + 1] ELSE issued

----------------------------------------------------------------------------
(* Request handlers *)

IdleReq == [kind |-> "idle", pc |-> "idle", raw |-> None, phone |-> None,
            otp |-> None, user |-> NoUser, num |-> None, g |-> G0]

NoResp == [kind |-> "none", status |-> 0, msg |-> "", user_id |-> 0,
           tokens |-> FALSE, g |-> G0]

Response(kind, status, msg, g) ==
    [kind |-> kind, status |-> status, msg |-> msg, user_id |-> 0,
     tokens |-> FALSE, g |-> g]

NoProbe == [stage |-> "none", raw |-> None, n |-> None, out |-> None, raises |-> FALSE,
            status |-> 0, OTP_TIMEOUT |-> 0, written |-> 0]

----------------------------------------------------------------------------
(* products app: rows, cache value, handler locals *)

\* Product.STATUS_LIST values and the value the admin's approve action writes
APPROVED == "approved"
PENDING == "pending"
REJECTED == "rejected"
ACCEPTED == "accepted"

NoProduct == [id |-> 0, status |-> "", views_count |-> 0, title |-> ""]

\* one product, as Product.objects.create leaves it: status PENDING, no views
NewProduct == [id |-> 1, status |-> PENDING, views_count |-> 0, title |-> "t"]

\* cache.get("cities") of a key never set
Absent == [present |-> FALSE, value |-> <<>>]

IdleJob == [pc |-> "idle", inst |-> NoProduct, data |-> <<>>, seen |-> Absent,
            late |-> FALSE]

NoReply == [kind |-> "none", status |-> 0, product |-> NoProduct, was |-> "",
            list |-> <<>>, read |-> FALSE, seen |-> Absent, late |-> FALSE]

InitShop ==
    /\ products = {NewProduct}
    /\ City = {}
    /\ cities = Absent
    /\ job = [w \in Workers |-> IdleJob]
    /\ reply = NoReply
    /\ hist = [saves |-> 0, pinned |-> Absent]

Init ==
    /\ InitShop
    /\ users = InitialUsers
    /\ cache = [k \in CacheKeys |-> NoEntry]
    /\ now = 0
    /\ req = [w \in Workers |-> IdleReq]
    /\ resp = NoResp
    /\ issued = [n \in Numbers |-> NoIssue]
    /\ probe = NoProbe

\* LoginAPIView.post up to the existence check
Login(w, raw) ==
    /\ resp = NoResp
    /\ req[w].kind = "idle"
    /\ IF raw = None
       THEN \* format_phone_number(None): filter() raises TypeError
            /\ resp' = Response("login", 500, "TypeError", AtLogin(raw))
            /\ UNCHANGED req
       ELSE LET phone == format_phone_number(raw)
            IN  IF phone = <<>>
                THEN /\ resp' = Response("login", 400, "Phone number is required",
                                         AtLogin(raw))
                     /\ UNCHANGED req
                ELSE IF ~filter_exists(users, phone)
                THEN /\ resp' = Response("login", 404,
                                         "User with this phone number does not exist",
                                         AtLogin(raw))
                     /\ UNCHANGED req
                ELSE /\ req' = [req EXCEPT ![w] =
                                   [IdleReq EXCEPT !.kind = "login", !.pc = "cache",
                                                   !.raw = raw, !.phone = phone,
                                                   !.g = AtLogin(raw)]]
                     /\ resp' = NoResp
    /\ UNCHANGED <<users, cache, now, issued>>
    /\ UNCHANGED <<probe, shop>>

\* a login response whose body depends on the code
LoginResponse_leaks(r, otp) ==
    Response("login", 200, IF otp = CodeA THEN "OTP sent succesfully" ELSE "OTP sent", r.g)

\* Response({"message": "OTP sent succesfully"}, 200), built where otp is in scope
LoginResponse(r, otp) == Response("login", 200, "OTP sent succesfully", r.g)

\* LoginAPIView.post: generate_otp, cache_otp, respond
LoginCache(w, otp) ==
    /\ resp = NoResp
    /\ req[w].kind = "login"
    /\ req[w].pc = "cache"
    /\ otp \in generate_otp
    /\ cache' = cache_otp(cache, now, req[w].phone, otp)
    /\ issued' = IssuedAfterWrite(req[w].raw, otp)
    /\ req' = [v \in Workers |->
                 IF v = w THEN IdleReq
                 ELSE IF req[v].kind = "verify" /\ req[v].num = Denoted(req[w].raw)
                      THEN [req[v] EXCEPT !.g.clean = FALSE]
                      ELSE req[v]]
    /\ resp' = LoginResponse(req[w], otp)
    /\ UNCHANGED <<users, now>>
    /\ UNCHANGED <<probe, shop>>

\* a rejection that deletes the record it was checked against
VerifyRejectedConsumes(w, raw, otp) ==
    /\ resp' = Response("verify", 400, "Invalid or expired OTP", AtCheck(raw, otp))
    /\ issued' = IssuedAfterFail(raw, otp)
    /\ cache' = cache_delete(cache, format_phone_number(raw))
    /\ UNCHANGED req

\* a rejection whose body tells why the check failed
VerifyRejectedTells(w, raw, otp) ==
    /\ resp' = Response("verify", 400,
                        IF cache[format_phone_number(raw)].hash = None
                        THEN "No OTP requested"
                        ELSE IF now >= cache[format_phone_number(raw)].expires
                        THEN "Expired OTP"
                        ELSE "Invalid OTP",
                        AtCheck(raw, otp))
    /\ issued' = IssuedAfterFail(raw, otp)
    /\ UNCHANGED <<req, cache>>

\* VerifyOTPCodeAPIView.post: verify_otp returned False
VerifyRejected(w, raw, otp) ==
    /\ resp' = Response("verify", 400, "Invalid or expired OTP", AtCheck(raw, otp))
    /\ issued' = IssuedAfterFail(raw, otp)
    /\ UNCHANGED <<req, cache>>

\* VerifyOTPCodeAPIView.post up to the verify_otp check
Verify(w, raw, otp) ==
    /\ resp = NoResp
    /\ req[w].kind = "idle"
    /\ IF raw = None
       THEN /\ resp' = Response("verify", 500, "TypeError", AtCheck(raw, otp))
            /\ UNCHANGED <<req, cache, issued>>
       ELSE LET phone == format_phone_number(raw)
            IN  IF phone = <<>> \/ otp = None \/ otp = <<>>
                THEN /\ resp' = Response("verify", 400,
                                         "Phone number and OTP are required",
                                         AtCheck(raw, otp))
                     /\ UNCHANGED <<req, cache, issued>>
                ELSE IF ~verify_otp(cache, now, phone, otp)
                THEN VerifyRejected(w, raw, otp)
                ELSE /\ req' = [req EXCEPT ![w] =
                                   [IdleReq EXCEPT !.kind = "verify", !.pc = "delete",
                                                   !.phone = phone, !.otp = otp,
                                                   !.num = Denoted(raw),
                                                   !.g = AtCheck(raw, otp)]]
                     /\ resp' = NoResp
                     /\ UNCHANGED <<cache, issued>>
    /\ UNCHANGED <<users, now>>
    /\ UNCHANGED <<probe, shop>>

\* cache.delete(f"otp:{phone}")
VerifyDelete(w) ==
    /\ resp = NoResp
    /\ req[w].kind = "verify"
    /\ req[w].pc = "delete"
    /\ cache' = cache_delete(cache, req[w].phone)
    /\ issued' = IssuedAfterDelete(req[w].num)
    /\ req' = [req EXCEPT ![w].pc = "lookup"]
    /\ resp' = NoResp
    /\ UNCHANGED <<users, now>>
    /\ UNCHANGED <<probe, shop>>

\* RefreshToken.for_user(user) and the 200 response
LoggedIn(g, user) ==
    [Response("verify", 200, "Logged in succesfully", g)
        EXCEPT !.user_id = user.id, !.tokens = TRUE]

\* a handler that saves the row whatever its flag
needs_save_always(user) == TRUE

\* if not user.phone_verified
needs_save(user) == ~user.phone_verified

\* user = User.objects.filter(phone=phone).first() and the branches on it
VerifyLookup(w) ==
    /\ resp = NoResp
    /\ req[w].kind = "verify"
    /\ req[w].pc = "lookup"
    /\ LET user == filter_first(users, req[w].phone)
           g == [req[w].g EXCEPT
                    !.uidOk = \E u \in users : u.id = user.id /\ u.phone = req[w].phone,
                    !.userThere = \E u \in users : u.phone = req[w].num]
       IN  IF user = NoUser
           THEN /\ resp' = Response("verify", 404, "User not found", g)
                /\ req' = [req EXCEPT ![w] = IdleReq]
                /\ UNCHANGED issued
           ELSE IF ~needs_save(user)
           THEN /\ resp' = LoggedIn(g, user)
                /\ req' = [req EXCEPT ![w] = IdleReq]
                /\ issued' = IssuedAfterAccept(req[w].num, g.clean)
           ELSE /\ req' = [req EXCEPT ![w].pc = "save", ![w].user = user, ![w].g = g]
                /\ resp' = NoResp
                /\ UNCHANGED issued
    /\ UNCHANGED <<users, cache, now>>
    /\ UNCHANGED <<probe, shop>>

\* user.phone_verified = True; user.save(); tokens; respond
VerifySave(w) ==
    /\ resp = NoResp
    /\ req[w].kind = "verify"
    /\ req[w].pc = "save"
    /\ users' = save(users, [req[w].user EXCEPT !.phone_verified = TRUE])
    /\ resp' = LoggedIn([req[w].g EXCEPT !.wrote = TRUE], req[w].user)
    /\ issued' = IssuedAfterAccept(req[w].num, req[w].g.clean)
    /\ req' = [req EXCEPT ![w] = IdleReq]
    /\ UNCHANGED <<cache, now>>
    /\ UNCHANGED <<probe, shop>>

\* QuerySet.update(field=value): one UPDATE of that column on the selected rows
queryset_update(us, queryset, field, value) ==
    {IF u.id \in queryset THEN [u EXCEPT ![field] = value] ELSE u : u \in us}

\* the selection an admin ticks in the change list: the row of the number that
\* logs in
Querysets == {{u.id : u \in {v \in InitialUsers : v.phone = Number1}}}

AdminUpdate(queryset, field, value) ==
    /\ resp = NoResp
    /\ users' = queryset_update(users, queryset, field, value)
    /\ resp' = NoResp
    /\ UNCHANGED <<cache, now, req, issued>>
    /\ UNCHANGED <<probe, shop>>

verify_phone(queryset) == AdminUpdate(queryset, "phone_verified", TRUE)

unverify_phone(queryset) == AdminUpdate(queryset, "phone_verified", FALSE)

activate_users(queryset) == AdminUpdate(queryset, "is_active", TRUE)

deactivate_users(queryset) == AdminUpdate(queryset, "is_active", FALSE)

\* the admin's delete of a user row
DeleteUser(u) ==
    /\ resp = NoResp
    /\ u \in users
    /\ users' = users \ {u}
    /\ resp' = NoResp
    /\ UNCHANGED <<cache, now, req, issued>>
    /\ UNCHANGED <<probe, shop>>

Tick ==
    /\ resp = NoResp
    /\ now + TickStep <= MaxTime
    /\ now' = now + TickStep
    /\ resp' = NoResp
    /\ UNCHANGED <<users, cache, req, issued>>
    /\ UNCHANGED <<probe, shop>>

\* the response written by the last handler step leaves the server
Sent ==
    /\ resp # NoResp
    /\ resp' = NoResp
    /\ UNCHANGED <<users, cache, now, req, issued>>
    /\ UNCHANGED <<probe, shop>>

Next ==
    \/ Sent
    \/ \E w \in Workers, raw \in LoginPhones : Login(w, raw)
    \/ \E w \in Workers, otp \in CodePool : LoginCache(w, otp)
    \/ \E w \in Workers, raw \in VerifyPhones, otp \in RawOtps : Verify(w, raw, otp)
    \/ \E w \in Workers : VerifyDelete(w)
    \/ \E w \in Workers : VerifyLookup(w)
    \/ \E w \in Workers : VerifySave(w)
    \/ \E u \in users : DeleteUser(u)
    \/ Tick

Spec == Init /\ [][Next]_vars

\* the two endpoints together with the admin's bulk actions on the user table
NextAdmin ==
    \/ Sent
    \/ \E w \in Workers, raw \in LoginPhones : Login(w, raw)
    \/ \E w \in Workers, otp \in CodePool : LoginCache(w, otp)
    \/ \E w \in Workers, raw \in VerifyPhones, otp \in RawOtps : Verify(w, raw, otp)
    \/ \E w \in Workers : VerifyDelete(w)
    \/ \E w \in Workers : VerifyLookup(w)
    \/ \E w \in Workers : VerifySave(w)
    \/ \E queryset \in Querysets : verify_phone(queryset)
    \/ \E queryset \in Querysets : unverify_phone(queryset)
    \/ \E queryset \in Querysets : activate_users(queryset)
    \/ \E queryset \in Querysets : deactivate_users(queryset)

SpecAdmin == Init /\ [][NextAdmin]_vars

----------------------------------------------------------------------------
(* users/serializers.py, users/models.py: the phone of a row being written *)

\* len(number) == 9: the length of a local number
LocalLen == 9

\* the digits the subscriber part of a local number is drawn from
TailDigits == {"0", "4", "9"}

RECURSIVE Strings(_, _)
Strings(alphabet, len) ==
    IF len = 0 THEN {<<>>}
    ELSE {<<d>> \o s : d \in alphabet, s \in Strings(alphabet, len - 1)}

\* the local numbers with an allow-listed operator prefix
LocalPool ==
    {Local1, Local2, Local3}
        \cup {p \o t : p \in PHONE_NUMBER_PREFIXES, t \in Strings(TailDigits, LocalLen - 2)}

\* texts that are no form of a local number of the pool
ShortZero == <<"0", "1", "2", "3", "4", "5">>
Short994 == <<"9", "9", "4", "5", "0", "1", "2", "3">>
Local994 == <<"9", "9", "4", "1", "2", "3", "4", "5", "6">>
LocalZero == <<"0", "5", "0", "1", "2", "3", "4", "5">> \o <<"6">>
Foreign13 == <<"1", "2", "3", "4", "5", "0", "1", "2", "3", "4", "5", "6", "7">>
Foreign12 == <<"4", "4", "7", "7", "0", "0", "9", "0", "0", "1", "2", "3">>
Letters == <<"a", "b", "c">>
Zero994 == <<"0">> \o Local994

OtherTexts ==
    {Empty, BadLength, BadOperator, ShortZero, Short994, Local994, LocalZero,
     Foreign13, Foreign12, Letters, Zero994, Number1, Number2,
     Form994(<<"0", "0", "1", "2", "3", "4", "5", "6", "7">>)}

\* a text submitted as phone, with the local number it is a form of
PureInputs ==
    UNION {{[raw |-> r, n |-> n] : r \in {n} \cup Forms(n)} : n \in LocalPool}
        \cup {[raw |-> r, n |-> None] : r \in OtherTexts}

InitPure ==
    /\ InitShop
    /\ users = InitialUsers
    /\ cache = [k \in CacheKeys |-> NoEntry]
    /\ now = 0
    /\ req = [w \in Workers |-> IdleReq]
    /\ resp = NoResp
    /\ issued = [n \in Numbers |-> NoIssue]
    /\ \E i \in PureInputs :
          probe = [NoProbe EXCEPT !.stage = "input", !.raw = i.raw, !.n = i.n]

\* RegisterUserSerializer.validate_phone
validate_phone ==
    /\ probe.stage = "input"
    /\ LET formatted_phone == format_phone_number(probe.raw)
       IN  probe' = [probe EXCEPT !.stage = "validated",
                                  !.out = formatted_phone,
                                  !.raises = verify_phone_number_raises(formatted_phone)]
    /\ UNCHANGED <<users, cache, now, req, resp, issued>>
    /\ UNCHANGED shop

\* User.clean
User_clean ==
    /\ probe.stage = "input"
    /\ probe.raw # <<>>
    /\ LET phone == format_phone_number(probe.raw)
       IN  probe' = [probe EXCEPT !.stage = "cleaned",
                                  !.out = phone,
                                  !.raises = verify_phone_number_raises(phone)]
    /\ UNCHANGED <<users, cache, now, req, resp, issued>>
    /\ UNCHANGED shop

\* the pk the database gives a new row
next_id(us) == (CHOOSE i \in {u.id : u \in us} : \A u \in us : u.id <= i) + 1

\* UniqueValidator(queryset=User.objects.all()) on the phone field: TRUE when it
\* raises, which is when a row holds the value the field was given
UniqueValidator_raises(us, value) == filter_exists(us, value)

\* RegisterAPIView.post after validate_phone: the field's UniqueValidator has
\* run on the submitted value; is_valid() false answers 400; otherwise
\* serializer.save() -> create -> UserManager.create_user -> save under the
\* unique column, whose IntegrityError nobody catches
create_user ==
    /\ probe.stage = "validated"
    /\ IF probe.raises \/ UniqueValidator_raises(users, probe.raw)
       THEN /\ probe' = [probe EXCEPT !.stage = "rejected", !.status = 400]
            /\ UNCHANGED users
       ELSE IF probe.out = <<>> \/ filter_exists(users, probe.out)
       THEN /\ probe' = [probe EXCEPT !.stage = "failed", !.status = 500]
            /\ UNCHANGED users
       ELSE /\ probe' = [probe EXCEPT !.stage = "stored", !.status = 201]
            /\ users' = users \cup {[NoUser EXCEPT !.id = next_id(users),
                                                   !.phone = probe.out]}
    /\ UNCHANGED <<cache, now, req, resp, issued>>
    /\ UNCHANGED shop

NextPure ==
    \/ validate_phone
    \/ User_clean
    \/ create_user

SpecPure == InitPure /\ [][NextPure]_vars

----------------------------------------------------------------------------
(* users/utils.py: generate_otp and cache_otp called on their own *)

\* the digits secrets.choice returns in the calls of the model
OtpDigits == {"0", "9"}

\* what the OTP_LENGTH calls of secrets.choice(digits) in one generate_otp return
Choices == [1..OTP_LENGTH -> OtpDigits]

InitOtp ==
    /\ InitShop
    /\ users = InitialUsers
    /\ cache = [k \in CacheKeys |-> NoEntry]
    /\ now = 0
    /\ req = [w \in Workers |-> IdleReq]
    /\ resp = NoResp
    /\ issued = [n \in Numbers |-> NoIssue]
    /\ \E timeout \in OTP_TIMEOUT_values :
          probe = [NoProbe EXCEPT !.stage = "otp", !.OTP_TIMEOUT = timeout]

\* otp = generate_otp(phone)
generate_otp_call(choice) ==
    /\ probe.stage = "otp"
    /\ probe' = [probe EXCEPT !.out = generate_otp_join(Number1, choice)]
    /\ UNCHANGED <<users, cache, now, req, resp, issued>>
    /\ UNCHANGED shop

\* cache_otp(phone, otp) with the code generated last
cache_otp_call ==
    /\ probe.stage = "otp"
    /\ probe.out # None
    /\ cache' = cache_otp(cache, now, Number1, probe.out)
    /\ probe' = [probe EXCEPT !.written = now, !.out = None]
    /\ UNCHANGED <<users, now, req, resp, issued>>
    /\ UNCHANGED shop

NextOtp ==
    \/ \E choice \in Choices : generate_otp_call(choice)
    \/ cache_otp_call
    \/ Tick

SpecOtp == InitOtp /\ [][NextOtp]_vars

----------------------------------------------------------------------------
(* products/views.py ProductDetailAPIView, products/models/product.py,      *)
(* products/admin.py                                                        *)

\* the product ids a client asks for: the row there is and one there is not
ProductIds == {NewProduct.id, NewProduct.id + 1}

\* get_object_or_404(Product, id=prod_id): the row, or NoProduct for Http404
get_object(ps, prod_id) ==
    IF \E p \in ps : p.id = prod_id
    THEN CHOOSE p \in ps : p.id = prod_id
    ELSE NoProduct

\* a save that writes the count of the loaded instance plus one
increment_view_stale(row, inst) ==
    [row EXCEPT !.views_count = inst.views_count + 1]

\* self.views_count = F("views_count") + 1; self.save(update_fields=["views_count"]):
\* UPDATE ... SET views_count = views_count + 1 on the stored row
increment_view_write(row, inst) ==
    [row EXCEPT !.views_count = row.views_count + 1]

\* ProductDetailAPIView.get up to the call of increment_view
ProductDetail_get(w, prod_id) ==
    /\ reply = NoReply
    /\ job[w].pc = "idle"
    /\ \A p \in products : p.views_count < MaxViews
    /\ LET product == get_object(products, prod_id)
       IN  IF product = NoProduct
           THEN /\ reply' = [NoReply EXCEPT !.kind = "detail", !.status = 404]
                /\ UNCHANGED job
           ELSE IF product.status # ACCEPTED
           THEN /\ reply' = [NoReply EXCEPT !.kind = "detail", !.status = 400,
                                            !.was = product.status,
                                            !.product = product]
                /\ UNCHANGED job
           ELSE /\ job' = [job EXCEPT ![w] = [IdleJob EXCEPT !.pc = "save",
                                                            !.inst = product]]
                /\ reply' = NoReply
    /\ UNCHANGED <<products, City, cities, hist>>
    /\ UNCHANGED auth

\* Product.increment_view: the save
increment_view_save(w) ==
    /\ reply = NoReply
    /\ job[w].pc = "save"
    /\ products' = {IF p.id = job[w].inst.id THEN increment_view_write(p, job[w].inst)
                                            ELSE p : p \in products}
    /\ job' = [job EXCEPT ![w].pc = "refresh"]
    /\ hist' = [hist EXCEPT !.saves = @ + 1]
    /\ reply' = NoReply
    /\ UNCHANGED <<City, cities>>
    /\ UNCHANGED auth

\* Product.increment_view: refresh_from_db; then the view serializes and responds
increment_view_refresh(w) ==
    /\ reply = NoReply
    /\ job[w].pc = "refresh"
    /\ LET product == get_object(products, job[w].inst.id)
       IN  reply' = [NoReply EXCEPT !.kind = "detail", !.status = 200,
                                   !.was = job[w].inst.status,
                                   !.product = product]
    /\ job' = [job EXCEPT ![w] = IdleJob]
    /\ UNCHANGED <<products, City, cities, hist>>
    /\ UNCHANGED auth

\* queryset.update(status=...) of the admin actions, on the one product
update_status(value) ==
    /\ reply = NoReply
    /\ products' = {[p EXCEPT !.status = value] : p \in products}
    /\ reply' = NoReply
    /\ UNCHANGED <<City, cities, job, hist>>
    /\ UNCHANGED auth

approve_products == update_status(ACCEPTED)

reject_products == update_status(REJECTED)

\* the reply written by the last handler step leaves the server
Delivered ==
    /\ reply # NoReply
    /\ reply' = NoReply
    /\ UNCHANGED <<products, City, cities, job, hist>>
    /\ UNCHANGED auth

\* a product as the admin's change form may have left it: any STATUS_LIST value
InitProduct ==
    /\ users = InitialUsers
    /\ cache = [k \in CacheKeys |-> NoEntry]
    /\ now = 0
    /\ req = [w \in Workers |-> IdleReq]
    /\ resp = NoResp
    /\ issued = [n \in Numbers |-> NoIssue]
    /\ probe = NoProbe
    /\ \E s \in {APPROVED, PENDING, REJECTED} :
          products = {[NewProduct EXCEPT !.status = s]}
    /\ City = {}
    /\ cities = Absent
    /\ job = [w \in Workers |-> IdleJob]
    /\ reply = NoReply
    /\ hist = [saves |-> 0, pinned |-> Absent]

NextProduct ==
    \/ Delivered
    \/ \E w \in Workers, prod_id \in ProductIds : ProductDetail_get(w, prod_id)
    \/ \E w \in Workers : increment_view_save(w)
    \/ \E w \in Workers : increment_view_refresh(w)
    \/ approve_products
    \/ reject_products

SpecProduct == InitProduct /\ [][NextProduct]_vars

----------------------------------------------------------------------------
(* products/views.py CityAPIView, products/admin.py CityAdmin *)

\* the pks of the cities an admin may create
CityIds == {1, 2}

\* CitySerializer(City.objects.all(), many=True).data: the rows in pk order
RECURSIVE CityList(_)
CityList(table) ==
    IF table = {} THEN <<>>
    ELSE LET first == CHOOSE c \in table : \A d \in table : c <= d
         IN  <<first>> \o CityList(table \ {first})

\* a view that takes every cached value for missing
cities_cached_never(value) == FALSE

\* the negation of `not cities`: a value is cached and is not the empty list
cities_cached(value) == value.present /\ value.value # <<>>

\* CityAPIView.get: cache.get("cities") and the branch on it
CityAPIView_get(w) ==
    /\ reply = NoReply
    /\ job[w].pc = "idle"
    /\ IF cities_cached(cities)
       THEN /\ reply' = [NoReply EXCEPT !.kind = "cities", !.status = 200,
                                        !.list = cities.value, !.seen = cities,
                                        !.late = hist.pinned.present]
            /\ UNCHANGED job
       ELSE /\ job' = [job EXCEPT ![w] = [IdleJob EXCEPT !.pc = "query",
                                                        !.seen = cities,
                                                        !.late = hist.pinned.present]]
            /\ reply' = NoReply
    /\ UNCHANGED <<products, City, cities, hist>>
    /\ UNCHANGED auth

\* CityAPIView.get: queryset = City.objects.all(); cities = serializer.data
CityAPIView_query(w) ==
    /\ reply = NoReply
    /\ job[w].pc = "query"
    /\ job' = [job EXCEPT ![w].pc = "set", ![w].data = CityList(City)]
    /\ reply' = NoReply
    /\ UNCHANGED <<products, City, cities, hist>>
    /\ UNCHANGED auth

\* CityAPIView.get: cache.set("cities", cities, timeout=None); return Response(cities)
CityAPIView_set(w) ==
    /\ reply = NoReply
    /\ job[w].pc = "set"
    /\ cities' = [present |-> TRUE, value |-> job[w].data]
    /\ hist' = IF ~hist.pinned.present /\ job[w].data # <<>>
               THEN [hist EXCEPT !.pinned = [present |-> TRUE, value |-> job[w].data]]
               ELSE hist
    /\ reply' = [NoReply EXCEPT !.kind = "cities", !.status = 200,
                                !.list = job[w].data, !.read = TRUE,
                                !.seen = job[w].seen, !.late = job[w].late]
    /\ job' = [job EXCEPT ![w] = IdleJob]
    /\ UNCHANGED <<products, City>>
    /\ UNCHANGED auth

\* CityAdmin: a city is added
City_add(c) ==
    /\ reply = NoReply
    /\ c \notin City
    /\ City' = City \cup {c}
    /\ reply' = NoReply
    /\ UNCHANGED <<products, cities, job, hist>>
    /\ UNCHANGED auth

\* CityAdmin: a city is deleted
City_delete(c) ==
    /\ reply = NoReply
    /\ c \in City
    /\ City' = City \ {c}
    /\ reply' = NoReply
    /\ UNCHANGED <<products, cities, job, hist>>
    /\ UNCHANGED auth

NextCity ==
    \/ Delivered
    \/ \E w \in Workers : CityAPIView_get(w)
    \/ \E w \in Workers : CityAPIView_query(w)
    \/ \E w \in Workers : CityAPIView_set(w)
    \/ \E c \in CityIds : City_add(c)
    \/ \E c \in CityIds : City_delete(c)

SpecCity == Init /\ [][NextCity]_vars

----------------------------------------------------------------------------
(* Properties *)

LiveEntry(k) == cache[k].hash # None /\ now < cache[k].expires

\* C1: verify-otp answers 200 with tokens only if, at its check, the cache held
\* an unexpired record under the canonical form of the submitted phone whose
\* hash is the hash of the submitted code; the user_id returned is the id of the
\* user row whose phone is that canonical phone.
C1_CredentialsOnlyAfterMatch ==
    (resp.kind = "verify" /\ (resp.status = 200 \/ resp.tokens)) =>
        /\ resp.g.live
        /\ resp.g.matched
        /\ resp.g.uidOk
        /\ resp.user_id # 0

C1_Witness ==
    /\ resp.kind = "verify"
    /\ resp.status = 200
    /\ resp.tokens
    /\ resp.g.matched
    /\ resp.user_id = 2

\* C2: a verify-otp carrying the outstanding code of number n passes the check;
\* once one has answered 200 on the code last written for n, the record for n
\* is gone, and a verify-otp that starts afterwards (no login-otp for n having
\* written since) is answered 400.
C2_SequentialSingleUse ==
    /\ (resp.kind = "verify" /\ resp.g.owed) => resp.status # 400
    /\ \A n \in Numbers : issued[n].accepts >= 1 => ~LiveEntry(n)
    /\ (resp.kind = "verify" /\ resp.g.after) => resp.status = 400

C2_Witness ==
    /\ resp.kind = "verify"
    /\ resp.g.after
    /\ resp.g.sameCode
    /\ resp.status = 400

\* C3: a code written by one login-otp is accepted (200) by at most one
\* verify-otp request, in every interleaving.
C3_AtMostOneAccept == \A n \in Numbers : issued[n].accepts <= 1

\* C4: verify_otp is false for every code when the cache holds no live record
\* for the phone (never written, expired, or deleted), and verify-otp then
\* answers 400.
C4_AbsentMeansFailure ==
    /\ \A k \in CacheKeys, code \in CodePool \cup {Empty} :
          ~LiveEntry(k) => ~verify_otp(cache, now, k, code)
    /\ (resp.kind = "verify" /\ ~resp.g.noPhone /\ ~resp.g.live) => resp.status = 400

C4_Witness ==
    /\ resp.kind = "verify"
    /\ resp.g.expired
    /\ resp.g.sameCode
    /\ resp.status = 400

\* C5: a verify-otp answered 400 changes neither the cache nor any user row, and
\* after a wrong-code attempt the code that is still outstanding still
\* verifies.
C5_FailureKeepsCode ==
    /\ [][(resp'.kind = "verify" /\ resp'.status = 400)
            => (cache' = cache /\ users' = users)]_vars
    /\ [](\A n \in Numbers :
            (issued[n].failed /\ Outstanding(n))
                => verify_otp(cache, now, n, issued[n].code))

C5_Witness ==
    /\ resp.kind = "verify"
    /\ resp.status = 200
    /\ resp.g.priorFail
    /\ resp.g.owed

\* C6: the record for a phone is the hash of the code of the last cache write
\* for it: while that write is neither deleted nor expired the cache holds its
\* hash, its code verifies, and no other code does.
C6_LastWriterWins ==
    \A n \in Numbers :
        /\ Outstanding(n) =>
              /\ LiveEntry(n)
              /\ cache[n].hash = sha256hex(issued[n].code)
              /\ verify_otp(cache, now, n, issued[n].code)
        /\ \A code \in CodePool :
              verify_otp(cache, now, n, code) => code = issued[n].code

\* a verify-otp passed its check on one code and a later login-otp has since
\* written another, which is the one the cache holds
C6_Witness ==
    \E w \in Workers :
        /\ req[w].kind = "verify"
        /\ ~req[w].g.clean
        /\ req[w].num # None
        /\ Outstanding(req[w].num)
        /\ req[w].otp # issued[req[w].num].code
        /\ ~verify_otp(cache, now, req[w].num, req[w].otp)

\* C7: a verify-otp carrying the code last written for the number its phone
\* denotes, while that code is outstanding, is answered 200 (404 only if the
\* user row was removed meanwhile), whatever textual form it writes the phone
\* in: all forms of a number give the same cache key.
C7_LoginThenVerify ==
    /\ \A n \in {Local1, Local3} : \A f \in Forms(n) :
          format_phone_number(f) = CC \o n
    /\ (resp.kind = "verify" /\ resp.g.owed) =>
          \/ resp.status = 200
          \/ resp.status = 404 /\ ~resp.g.userThere

C7_Witness ==
    /\ resp.kind = "verify"
    /\ resp.status = 200
    /\ resp.g.owed
    /\ resp.g.xform

\* C8: login-otp answers 400 for every phone whose normalized form is not a
\* 13-character number with an allow-listed operator prefix.
C8_InvalidPhoneRejected ==
    (resp.kind = "login" /\ ~resp.g.noPhone /\ resp.g.invalid) => resp.status = 400

\* C9: login-otp without a phone field, and verify-otp without phone or without
\* otp, answer 400.
C9_MissingFieldRejected ==
    (resp.kind \in {"login", "verify"} /\ (resp.g.noPhone \/ resp.g.noOtp))
        => resp.status = 400

\* C10: login-otp for a phone no user row has answers 404 and leaves the cache
\* as it was; the cache gains a record only under a phone a user row had when
\* the login-otp request looked.
C10_UnknownUser ==
    /\ [](  (resp.kind = "login" /\ ~resp.g.noPhone /\ ~resp.g.blank /\ ~resp.g.existed)
              => resp.status = 404)
    /\ [][(resp'.kind = "login" /\ resp'.status = 404) => cache' = cache]_vars
    /\ [][\A k \in CacheKeys :
            (cache'[k] # cache[k] /\ cache'[k] # NoEntry)
                => \E w \in Workers :
                      /\ req[w].kind = "login"
                      /\ req[w].phone = k
                      /\ req[w].g.existed]_vars

C10_Witness ==
    /\ resp.kind = "login"
    /\ resp.status = 404
    /\ ~resp.g.invalid
    /\ ~resp.g.existed

\* C11: a user's phone_verified goes from false to true only in the save step
\* of a verify-otp request whose verify_otp found the code of that user's
\* phone; no login-otp step and no verify-otp that is not answered 200 changes
\* a user row.
C11_VerifiedOnlyAfterCheck ==
    /\ [][\A v \in users' :
            (v.phone_verified /\ ~\E u \in users : u.id = v.id /\ u.phone_verified)
                => \E w \in Workers :
                      /\ req[w].kind = "verify"
                      /\ req[w].pc = "save"
                      /\ req[w].g.live
                      /\ req[w].g.matched
                      /\ req[w].phone = v.phone
                      /\ resp'.status = 200]_vars
    /\ [][(\/ resp'.kind = "login"
           \/ resp'.kind = "verify" /\ resp'.status # 200
           \/ \E w \in Workers :
                 /\ req'[w].pc # req[w].pc
                 /\ "login" \in {req[w].kind, req'[w].kind})
            => users' = users]_vars

C11_Witness ==
    /\ resp.kind = "verify"
    /\ resp.status = 200
    /\ resp.g.wrote
    /\ \E u \in users : u.id = resp.user_id /\ u.phone_verified

\* C12: the save step of verify-otp changes only the phone_verified field of
\* the row it read, and leaves every other field of that row and every other
\* row as they are in the table at the time of the save, whatever an admin
\* action wrote between the handler's read and its save.
C12_SingleFieldUpdate ==
    [][\A w \in Workers :
          (req[w].kind = "verify" /\ req[w].pc = "save" /\ req'[w].pc # "save")
              => users' = queryset_update(users, {req[w].user.id}, "phone_verified", TRUE)]_vars

\* C13: a verify-otp whose check found the live code of a phone whose user was
\* already phone_verified, and whose lookup found the user, answers 200 with a
\* credential pair, writes no user row and leaves that user phone_verified.
C13_ReverifyIsNoOp ==
    /\ []((/\ resp.kind = "verify"
           /\ resp.g.wasVerified
           /\ resp.g.live
           /\ resp.g.matched
           /\ resp.g.userThere)
            => /\ resp.status = 200
               /\ resp.tokens
               /\ ~resp.g.wrote
               /\ \E u \in users : u.id = resp.user_id /\ u.phone_verified)
    /\ [][(resp'.kind = "verify" /\ resp'.g.wasVerified /\ resp'.g.userThere)
            => users' = users]_vars

C13_Witness ==
    /\ resp.kind = "verify"
    /\ resp.status = 200
    /\ resp.g.wasVerified
    /\ resp.g.matched
    /\ resp.tokens
    /\ ~resp.g.wrote

\* C14: every value stored under an otp:<phone> key is the SHA-256 hex digest
\* of the code last issued for that phone and never the code itself, and
\* verify_otp accepts a submitted code exactly when its digest equals the
\* stored, unexpired digest.
C14_CacheHoldsDigests ==
    \A k \in CacheKeys :
        /\ cache[k].hash # None
            => /\ k \in Numbers
               /\ cache[k].hash = sha256hex(issued[k].code)
               /\ cache[k].hash # issued[k].code
               /\ cache[k].hash \notin generate_otp
        /\ \A code \in CodePool :
              verify_otp(cache, now, k, code)
                  <=> (LiveEntry(k) /\ cache[k].hash = sha256hex(code))

C14_Witness ==
    \E k \in Numbers :
        /\ cache[k].hash = sha256hex(issued[k].code)
        /\ issued[k].code \in generate_otp

\* C15: for a login-otp request about to generate its code, the HTTP response
\* is the same whichever code is generated: any two runs from the same state
\* that differ only in the code answer with identical status and body, and the
\* body is the fixed message.
C15_ResponseIndependentOfCode ==
    /\ [](\A w \in Workers :
            (req[w].kind = "login" /\ req[w].pc = "cache")
                => \A o1, o2 \in generate_otp :
                      LET r1 == LoginResponse(req[w], o1)
                          r2 == LoginResponse(req[w], o2)
                      IN  /\ r1.status = r2.status
                          /\ r1.msg = r2.msg
                          /\ r1.user_id = r2.user_id
                          /\ r1.tokens = r2.tokens)
    /\ [][\A w \in Workers :
            (req[w].kind = "login" /\ req[w].pc = "cache" /\ req'[w].pc # "cache")
                => /\ resp'.kind = "login"
                   /\ resp'.status = 200
                   /\ resp'.msg = "OTP sent succesfully"
                   /\ resp'.user_id = 0
                   /\ ~resp'.tokens]_vars

C15_Witness ==
    /\ resp.kind = "login"
    /\ resp.status = 200
    /\ \E k \in Numbers : cache[k].hash = sha256hex(CodeB) /\ issued[k].accepts = 0

\* the status and body of a response, without the history attached to it
Body(r) == [status |-> r.status, msg |-> r.msg, user_id |-> r.user_id, tokens |-> r.tokens]

\* C16: every verify-otp that carries a phone and a code and fails the check is
\* answered with the same status 400 and the same body, whether the code was
\* wrong against a live record, the record had expired, had been consumed, or
\* had never been created.
C16_FailuresIndistinguishable ==
    (/\ resp.kind = "verify"
     /\ ~resp.g.noPhone /\ ~resp.g.blank
     /\ ~resp.g.noOtp /\ ~resp.g.emptyOtp
     /\ ~(resp.g.live /\ resp.g.matched))
        => Body(resp) = [status |-> 400, msg |-> "Invalid or expired OTP",
                         user_id |-> 0, tokens |-> FALSE]

C16_Witness ==
    /\ resp.kind = "verify"
    /\ resp.status = 400
    /\ resp.g.live
    /\ ~resp.g.matched
    /\ ~resp.g.noOtp /\ ~resp.g.emptyOtp

C16_WitnessExpired ==
    /\ resp.kind = "verify" /\ resp.status = 400 /\ resp.g.expired /\ ~resp.g.noOtp /\ ~resp.g.emptyOtp

C16_WitnessConsumed ==
    /\ resp.kind = "verify" /\ resp.status = 400 /\ resp.g.after /\ ~resp.g.live /\ ~resp.g.expired
    /\ ~resp.g.noOtp /\ ~resp.g.emptyOtp

C16_WitnessNever ==
    /\ resp.kind = "verify" /\ resp.status = 400 /\ ~resp.g.live /\ ~resp.g.expired /\ ~resp.g.after
    /\ ~resp.g.noOtp /\ ~resp.g.emptyOtp /\ ~resp.g.blank

\* the probe has been through format_phone_number
Formatted == probe.stage \in {"validated", "cleaned", "rejected", "failed", "stored"}

Plus994Nine(p) ==
    /\ Len(p) = 13
    /\ SubSeq(p, 1, 4) = CC
    /\ \A i \in 5..13 : p[i] \in Digits

Dialable(raw) ==
    LET d == FilterDigits(raw)
    IN  \/ Len(d) = LocalLen + 1 /\ startswith(d, <<"0">>)
        \/ Len(d) = LocalLen + 3 /\ startswith(d, <<"9", "9", "4">>)
        \/ Len(d) = LocalLen /\ ~startswith(d, <<"0">>) /\ ~startswith(d, <<"9", "9", "4">>)

C19_RaisesIffBadLengthOrOperator ==
    probe.stage \in {"validated", "cleaned"}
        => LET p == format_phone_number(probe.out)
           IN  probe.raises
                   <=> (\/ Len(p) # 13
                        \/ <<p[5], p[6]>> \notin PHONE_NUMBER_PREFIXES)

C19_Witness ==
    /\ probe.stage = "validated"
    /\ probe.raises
    /\ Len(format_phone_number(probe.out)) = 13

\* C20: every phone on a user row, and every value that passed
\* format_phone_number followed by verify_phone_number in registration or
\* model cleaning, is +994, an allow-listed operator prefix and 7 digits.
C20_OnlyCanonicalStored ==
    /\ \A u \in users : Canonical(u.phone)
    /\ (probe.stage \in {"validated", "cleaned"} /\ ~probe.raises)
          => Canonical(probe.out)

\* C21: a registration whose phone normalizes to the phone of an existing user
\* is answered 400 whatever textual form was submitted, never reaches the
\* database, and no two users share a phone.
C21_DuplicateRejectedByForm ==
    /\ \A u, v \in users : u.phone = v.phone => u.id = v.id
    /\ (/\ probe.status # 0
        /\ \E u \in InitialUsers : u.phone = format_phone_number(probe.raw))
          => probe.status = 400

\* C22: a verify-otp whose check found the live code of the phone and whose
\* lookup finds no user row for that phone answers 404 without credentials,
\* and the step that answers 404 changes no user row.
C22_NoUserRowIs404 ==
    /\ []((/\ resp.kind = "verify"
           /\ resp.g.live
           /\ resp.g.matched
           /\ ~resp.g.userThere)
            => /\ resp.status = 404
               /\ resp.msg = "User not found"
               /\ ~resp.tokens
               /\ resp.user_id = 0)
    /\ [][(resp'.kind = "verify" /\ resp'.status = 404) => users' = users]_vars

C22_Witness ==
    /\ resp.kind = "verify"
    /\ resp.status = 404
    /\ resp.g.matched
    /\ ~resp.g.userThere
    /\ users # {}

\* C23: a record cache_otp stored verifies exactly until the configured
\* OTP_TIMEOUT has passed since the write, whichever value is configured.
C23_ExpiryFromConfiguration ==
    \A k \in CacheKeys :
        cache[k].hash # None
            => /\ cache[k].expires = probe.written + probe.OTP_TIMEOUT
               /\ \A choice \in Choices :
                     cache[k].hash = sha256hex(generate_otp_join(k, choice))
                         => (verify_otp(cache, now, k, generate_otp_join(k, choice))
                                <=> now < probe.written + probe.OTP_TIMEOUT)

\* C24: every result of generate_otp is OTP_LENGTH characters, each a decimal
\* digit, the same for every phone argument, whatever was generated or stored
\* before.
C24_FixedLengthDigits ==
    /\ \A choice \in Choices :
          LET otp == generate_otp_join(Number1, choice)
          IN  /\ Len(otp) = OTP_LENGTH
              /\ \A i \in 1..Len(otp) : otp[i] \in Digits
              /\ \A phone \in CacheKeys : generate_otp_join(phone, choice) = otp
    /\ (probe.stage = "otp" /\ probe.out # None)
          => /\ Len(probe.out) = OTP_LENGTH
             /\ \A i \in 1..Len(probe.out) : probe.out[i] \in Digits

C24_Witness ==
    /\ probe.stage = "otp"
    /\ probe.out # None
    /\ \E k \in CacheKeys :
          /\ cache[k].hash # None
          /\ cache[k].hash # sha256hex(probe.out)

\* C25: a login-otp answered 200 has the body {"message": "OTP sent
\* successfully"} and the hash of its code is in the cache under the canonical
\* phone when it responds.
C25_LoginSuccessBody ==
    (resp.kind = "login" /\ resp.status = 200)
        => /\ resp.msg = "OTP sent successfully"
           /\ \E k \in Numbers : LiveEntry(k) /\ cache[k].hash = sha256hex(issued[k].code)

\* C26: the cache.delete of a verify-otp that matched a code leaves the cache
\* as it is when a login-otp has written a newer record for the phone since
\* the match, so the newer code still verifies.
C26_DeleteSparesNewerCode ==
    [][\A w \in Workers :
          (/\ req[w].kind = "verify"
           /\ req[w].pc = "delete"
           /\ req'[w].pc # "delete"
           /\ ~req[w].g.clean)
              => /\ cache'[req[w].phone] = cache[req[w].phone]
                 /\ \A n \in Numbers :
                       verify_otp(cache, now, n, issued[n].code)
                           => verify_otp(cache', now', n, issued[n].code)]_vars

\* C27: when a verify-otp that passed the OTP check responds, 200 or 404, and
\* no login-otp has written a record for the phone since the check, the cache
\* holds no record for the phone and the same phone and code no longer pass
\* the check, so repeating the request is answered 400.
C27_ConsumedBeforeLookup ==
    [][\A w \in Workers :
          (/\ req[w].kind = "verify"
           /\ req[w].pc \in {"lookup", "save"}
           /\ req'[w].pc = "idle"
           /\ req[w].g.clean)
              => /\ resp'.kind = "verify"
                 /\ resp'.status \in {200, 404}
                 /\ cache'[req[w].phone] = NoEntry
                 /\ ~verify_otp(cache', now', req[w].phone, req[w].otp)]_vars

C27_Witness ==
    /\ resp.kind = "verify"
    /\ resp.status = 404
    /\ resp.g.live
    /\ resp.g.matched
    /\ resp.g.clean
    /\ ~resp.tokens
    /\ \A k \in CacheKeys : cache[k] = NoEntry

\* C28: a GET of an existing product whose status is Product.APPROVED is
\* answered 200 with the product, its views_count one higher; a GET of a
\* product in any other status is answered 400.
C28_ApprovedIsServed ==
    (reply.kind = "detail" /\ reply.status # 404)
        => /\ reply.was = APPROVED
              => (reply.status = 200 /\ reply.product.views_count >= 1)
           /\ reply.was # APPROVED => reply.status = 400

\* C29: the stored views_count is the number of increment_view saves done, in
\* every interleaving of the calls, and a save of increment_view changes
\* views_count of its product by one and no other field of any product.
C29_NoLostView ==
    /\ [](\A p \in products : p.views_count = hist.saves)
    /\ [][\A w \in Workers :
            (job[w].pc = "save" /\ job'[w].pc = "refresh")
                => products' = {IF p.id = job[w].inst.id
                                THEN [p EXCEPT !.views_count = p.views_count + 1]
                                ELSE p : p \in products}]_vars

C29_Witness ==
    /\ \A w \in Workers : job[w].pc = "refresh" /\ job[w].inst.views_count = 0
    /\ \E p \in products : p.views_count = Cardinality(Workers) /\ p.status = REJECTED

\* C30 as stated: once a GET has cached a non-empty city list, every GET that
\* starts later returns that list without reading the City table.
C30_FirstListForever ==
    (reply.kind = "cities" /\ reply.late)
        => /\ reply.list = hist.pinned.value
           /\ ~reply.read

\* C30 amended: a GET that finds a non-empty list cached returns that list
\* without reading the City table; a GET that finds nothing or the empty list
\* reads the table and caches what it read; the cached value changes only by
\* the cache.set of a GET that had found nothing or the empty list, never by
\* a change of the City table; and once a non-empty list is cached while no
\* such GET is still on its way, the cached value changes no more.
C30_CachedUntilOverwritten ==
    /\ [](reply.kind = "cities"
            => /\ reply.status = 200
               /\ reply.read <=> ~(reply.seen.present /\ reply.seen.value # <<>>)
               /\ ~reply.read => (reply.list = reply.seen.value /\ cities = reply.seen)
               /\ reply.read => (cities.present /\ cities.value = reply.list))
    /\ [][cities' # cities
            => \E w \in Workers :
                  /\ job[w].pc = "set"
                  /\ job'[w].pc = "idle"
                  /\ ~(job[w].seen.present /\ job[w].seen.value # <<>>)
                  /\ cities'.value = job[w].data]_vars
    /\ [][(/\ cities.present
           /\ cities.value # <<>>
           /\ \A w \in Workers : job[w].pc = "idle")
            => (/\ cities' = cities
                /\ \A w \in Workers : job'[w].pc = "idle")]_vars

C30_Witness ==
    /\ reply.kind = "cities"
    /\ ~reply.read
    /\ reply.list # <<>>
    /\ reply.list # CityList(City)

====
